---- MODULE Spec2Model ----
(***************************************************************************)
(* Model of src/Main.py: the schedule table df, the query function         *)
(* buscar_horarios and the two Telegram handlers start and handle_message. *)
(*                                                                         *)
(* Text is a sequence of one-character strings, so that lower(), the       *)
(* pattern search of str.contains and strptime('%H:%M') are computed and   *)
(* not assumed.  A value decoded from the resolver's JSON is a record      *)
(* [t, v] carrying its Python type.  Times are minutes after midnight of   *)
(* the current day.                                                        *)
(***************************************************************************)
EXTENDS Integers, Sequences, FiniteSets, TLC

\* ------------------------------------------------------------------ bounds
\* longest schedule of the engine specification
MaxTrips == 2
\* longest schedule of the "ahora" specification
MaxTripsAhora == 4
\* longest schedule of the handler specification
MaxRows == 1
\* latest minute of the day a trip, the clock or a requested time may show
MaxTime == 2

\* head(3) of the "ahora" branch
DefaultWindow == 3

\* ------------------------------------------------------------------ text
s_Ida == <<"I", "d", "a">>
s_ida == <<"i", "d", "a">>
s_Vuelta == <<"V", "u", "e", "l", "t", "a">>
s_vuelta == <<"v", "u", "e", "l", "t", "a">>
s_ahora == <<"a", "h", "o", "r", "a">>
s_cerca == <<"c", "e", "r", "c", "a">>
s_antes_de == <<"a", "n", "t", "e", "s", "_", "d", "e">>
s_despues_de == <<"d", "e", "s", "p", "u", "e", "s", "_", "d", "e">>
s_Ruta60 == <<"R", "u", "t", "a", " ", "6", "0">>
s_Ruta12 == <<"R", "u", "t", "a", " ", "1", "2">>

\* str.lower() on one character
LowerChar(c) ==
    CASE c = "A" -> "a" [] c = "D" -> "d" [] c = "I" -> "i" [] c = "R" -> "r"
      [] c = "T" -> "t" [] c = "U" -> "u" [] c = "V" -> "v"
      [] OTHER -> c

\* str.lower()
lower(s) == [i \in 1..Len(s) |-> LowerChar(s[i])]

\* re.search(pat, s) for a pattern of literal characters and the wildcard ".",
\* which is what Series.str.contains(pat) runs with its default regex=True
contains(s, pat) ==
    \E o \in 0..(Len(s) - Len(pat)) :
        \A j \in 1..Len(pat) : pat[j] = "." \/ pat[j] = s[o + j]

Digits == <<"0", "1", "2", "3", "4", "5", "6", "7", "8", "9">>

IsDigit(c) == \E d \in 1..10 : Digits[d] = c

DigitVal(c) == (CHOOSE d \in 1..10 : Digits[d] = c) - 1

\* the decimal value of a run of one or two digits
Number(s) == IF Len(s) = 1 THEN DigitVal(s[1]) ELSE 10 * DigitVal(s[1]) + DigitVal(s[2])

ValueError == -1

\* datetime.strptime(s, '%H:%M').time() as minutes after midnight: one or two
\* digits of hour (0..23), ":", one or two digits of minute (0..59), nothing else
strptime(s) ==
    LET fits(hl, ml) ==
            /\ Len(s) = hl + 1 + ml
            /\ \A i \in 1..hl : IsDigit(s[i])
            /\ s[hl + 1] = ":"
            /\ \A i \in (hl + 2)..Len(s) : IsDigit(s[i])
            /\ Number(SubSeq(s, 1, hl)) <= 23
            /\ Number(SubSeq(s, hl + 2, Len(s))) <= 59
        ok == {p \in {1, 2} \X {1, 2} : fits(p[1], p[2])}
    IN  IF ok = {} THEN ValueError
        ELSE LET p == CHOOSE q \in ok : TRUE
             IN  60 * Number(SubSeq(s, 1, p[1])) + Number(SubSeq(s, p[1] + 2, Len(s)))

\* ------------------------------------------------------------------ JSON values
JNull == [t |-> "null", v |-> 0]
JStr(s) == [t |-> "str", v |-> s]
JList(xs) == [t |-> "list", v |-> xs]
JInt(n) == [t |-> "int", v |-> n]
JBool(b) == [t |-> "bool", v |-> b]

\* Python truth value
Truthy(x) ==
    CASE x.t = "null" -> FALSE
      [] x.t = "str" -> x.v # <<>>
      [] x.t = "list" -> x.v # <<>>
      [] x.t = "int" -> x.v # 0
      [] x.t = "bool" -> x.v

\* x == 'literal'
StrEq(x, s) == x.t = "str" /\ x.v = s

\* if isinstance(x, list) and len(x) > 0: x = x[0]
first_of_list(x) == IF x.t = "list" /\ Len(x.v) > 0 THEN x.v[1] ELSE x

\* ------------------------------------------------------------------ DataFrame
\* A frame derived from df is the sequence of the labels (positions in df) of
\* its rows, in the frame's row order.
Index(frame) == [i \in 1..Len(frame) |-> i]

\* the outcome of a call of buscar_horarios: the frame returned, or the
\* exception that left the function
Returned(rows) == [exc |-> "none", rows |-> rows]
Raised(e) == [exc |-> e, rows |-> <<>>]
\* pd.DataFrame()
EmptyFrame == Returned(<<>>)

\* The two ends of what an unstable sort may do with equal keys: keep them in
\* frame order, or reverse them.
TieBreaks == {"first", "last"}

\* DataFrame.sort_values(by=...), ascending; key maps a row label to its sort key
RECURSIVE sort_values(_, _, _)
sort_values(rows, key, tie) ==
    IF rows = <<>> THEN <<>>
    ELSE LET n == Len(rows)
             before(p, q) ==
                 \/ key[rows[p]] < key[rows[q]]
                 \/ /\ key[rows[p]] = key[rows[q]]
                    /\ IF tie = "first" THEN p < q ELSE p > q
             m == CHOOSE p \in 1..n : \A q \in (1..n) \ {p} : before(p, q)
         IN  <<rows[m]>> \o sort_values(SubSeq(rows, 1, m - 1) \o SubSeq(rows, m + 1, n), key, tie)

\* DataFrame.head(n): the first n rows, or all but the last -n when n < 0
head(rows, n) ==
    IF n >= 0
    THEN SubSeq(rows, 1, IF n < Len(rows) THEN n ELSE Len(rows))
    ELSE SubSeq(rows, 1, IF Len(rows) + n > 0 THEN Len(rows) + n ELSE 0)

\* the columns Salida and Llegada as sort keys
Salida(df) == [i \in 1..Len(df) |-> df[i].Salida]
Llegada(df) == [i \in 1..Len(df) |-> df[i].Llegada]

\* ------------------------------------------------------------------ buscar_horarios
\* lines 73-80: the branch of a requested bus line
rama_micro_linea(df, micro_linea, direccion, tie) ==
    IF micro_linea.t # "str" THEN Raised("AttributeError")
    ELSE LET pat == lower(micro_linea.v)
             por_linea == SelectSeq(Index(df), LAMBDA i : contains(lower(df[i].Linea), pat))
         IN  IF ~Truthy(direccion) THEN Returned(sort_values(por_linea, Salida(df), tie))
             ELSE IF direccion.t # "str" THEN Raised("AttributeError")
             ELSE Returned(sort_values(
                      SelectSeq(por_linea,
                                LAMBDA i : lower(df[i].Direccion) = lower(direccion.v)),
                      Salida(df), tie))

\* line 90, mutated: a trip leaving at the current instant is kept
filtro_salida_mut(df, direccion, now) ==
    SelectSeq(Index(df),
              LAMBDA i : lower(df[i].Direccion) = lower(direccion.v) /\ df[i].Salida >= now)

\* lines 85-90: the trips of the direction that have not left yet.  The date
\* of datetime.today() (lines 88-89) and the instant of datetime.now() (line 90)
\* are read on the same day.
filtro_salida(df, direccion, now) ==
    SelectSeq(Index(df),
              LAMBDA i : lower(df[i].Direccion) = lower(direccion.v) /\ df[i].Salida > now)

\* lines 96-101, mutated: the count is looked at before the full listing
rama_ahora_cantidad_primero(df, df_filtrado, cantidad, listado_completo, tie) ==
    LET proximos == sort_values(df_filtrado, Salida(df), tie)
    IN  IF cantidad.t = "int" THEN Returned(head(proximos, cantidad.v))
        ELSE IF Truthy(listado_completo) THEN Returned(proximos)
        ELSE Returned(head(proximos, DefaultWindow))

\* line 101, mutated: no default window
rama_ahora_sin_tope(df, df_filtrado, cantidad, listado_completo, tie) ==
    LET proximos == sort_values(df_filtrado, Salida(df), tie)
    IN  IF Truthy(listado_completo) THEN Returned(proximos)
        ELSE IF cantidad.t # "null"
             THEN IF cantidad.t = "int" THEN Returned(head(proximos, cantidad.v))
                  ELSE Raised("TypeError")
        ELSE Returned(proximos)

\* lines 93-101: hora == 'ahora'
rama_ahora(df, df_filtrado, cantidad, listado_completo, tie) ==
    LET proximos == sort_values(df_filtrado, Salida(df), tie)
    IN  IF Truthy(listado_completo) THEN Returned(proximos)
        ELSE IF cantidad.t # "null"
             THEN IF cantidad.t = "int" THEN Returned(head(proximos, cantidad.v))
                  ELSE Raised("TypeError")
        ELSE Returned(head(proximos, DefaultWindow))

\* lines 109-127: condicion_horario == 'cerca'.  resultados stays the frame
\* without columns pd.DataFrame() when neither part has a row, and sorting that
\* frame by 'llegada_datetime' raises KeyError.
rama_cerca(df, df_filtrado, T, tie) ==
    LET micros_antes == SelectSeq(df_filtrado, LAMBDA i : df[i].Llegada <= T)
        micros_despues == SelectSeq(df_filtrado, LAMBDA i : df[i].Llegada > T)
        descending == [i \in 1..Len(df) |-> 0 - df[i].Llegada]
        cercano_antes == head(sort_values(micros_antes, descending, tie), 1)
        cercano_despues == head(sort_values(micros_despues, Llegada(df), tie), 1)
        resultados == cercano_antes \o cercano_despues
    IN  IF micros_antes = <<>> /\ micros_despues = <<>> THEN Raised("KeyError")
        ELSE Returned(sort_values(resultados, Llegada(df), tie))

\* |llegada_datetime - hora_solicitada_dt|
diff(df, T) ==
    [i \in 1..Len(df) |-> IF df[i].Llegada >= T THEN df[i].Llegada - T ELSE T - df[i].Llegada]

\* line 134, mutated: the frame is left in schedule order
rama_antes_de_sin_orden(df, df_filtrado, T, cantidad, listado_completo, tie) ==
    LET cercanos == SelectSeq(df_filtrado, LAMBDA i : df[i].Llegada < T)
    IN  IF Truthy(listado_completo) THEN Returned(cercanos)
        ELSE IF cantidad.t # "null"
             THEN IF cantidad.t = "int" THEN Returned(head(cercanos, cantidad.v))
                  ELSE Raised("TypeError")
        ELSE Returned(cercanos)

\* lines 130-141: condicion_horario == 'antes_de'
rama_antes_de(df, df_filtrado, T, cantidad, listado_completo, tie) ==
    LET cercanos == sort_values(SelectSeq(df_filtrado, LAMBDA i : df[i].Llegada < T),
                                diff(df, T), tie)
    IN  IF Truthy(listado_completo) THEN Returned(cercanos)
        ELSE IF cantidad.t # "null"
             THEN IF cantidad.t = "int" THEN Returned(head(cercanos, cantidad.v))
                  ELSE Raised("TypeError")
        ELSE Returned(cercanos)

\* lines 144-155: condicion_horario == 'despues_de'
rama_despues_de(df, df_filtrado, T, cantidad, listado_completo, tie) ==
    LET cercanos == sort_values(SelectSeq(df_filtrado, LAMBDA i : df[i].Llegada >= T),
                                diff(df, T), tie)
    IN  IF Truthy(listado_completo) THEN Returned(cercanos)
        ELSE IF cantidad.t # "null"
             THEN IF cantidad.t = "int" THEN Returned(head(cercanos, cantidad.v))
                  ELSE Raised("TypeError")
        ELSE Returned(cercanos)

\* lines 43-160.  now is the one reading of the clock (datetime.now() of line
\* 90); tie is how the sort of this build orders equal keys.
buscar_horarios(df, intent, now, tie) ==
    IF df = <<>> THEN EmptyFrame
    ELSE
    LET direccion == first_of_list(intent.direccion)
        micro_linea == first_of_list(intent.micro_linea)
        hora_str == intent.hora
        condicion_horario == intent.condicion_horario
        cantidad == intent.cantidad
        listado_completo == intent.listado_completo
    IN  IF Truthy(micro_linea) THEN rama_micro_linea(df, micro_linea, direccion, tie)
        ELSE IF ~Truthy(direccion) THEN EmptyFrame
        ELSE IF direccion.t # "str" THEN Raised("AttributeError")
        ELSE
        LET df_filtrado == filtro_salida(df, direccion, now)
        IN  IF StrEq(hora_str, s_ahora)
            THEN rama_ahora(df, df_filtrado, cantidad, listado_completo, tie)
            ELSE IF ~Truthy(hora_str) THEN EmptyFrame
            ELSE IF hora_str.t # "str" THEN Raised("TypeError")
            ELSE
            LET T == strptime(hora_str.v)
            IN  IF T = ValueError THEN EmptyFrame
                ELSE IF StrEq(condicion_horario, s_cerca)
                THEN rama_cerca(df, df_filtrado, T, tie)
                ELSE IF StrEq(condicion_horario, s_antes_de)
                THEN rama_antes_de(df, df_filtrado, T, cantidad, listado_completo, tie)
                ELSE IF StrEq(condicion_horario, s_despues_de)
                THEN rama_despues_de(df, df_filtrado, T, cantidad, listado_completo, tie)
                ELSE EmptyFrame

\* ------------------------------------------------------------------ handlers
\* The messages the bot sends, by the line of reply_text that sends them.
Reply(kind) == [kind |-> kind, rows |-> <<>>]
\* lines 233-240: the header and one entry per row: line, departure, arrival
Listing(kind, df, rows) ==
    [kind |-> kind,
     rows |-> [k \in 1..Len(rows) |->
                  <<df[rows[k]].Linea, df[rows[k]].Salida, df[rows[k]].Llegada>>]]

\* buscar_horarios was not reached
NotCalled == [exc |-> "not_called", rows |-> <<>>]

\* What the resolver's answer holds once lines 200-210 have read it:
\*   "empty"    no response, or a response without text
\*   "no_json"  text in which re.search finds no {...}
\*   "bad_json" a {...} that json.loads rejects
\*   "json"     a JSON object, decoded into intent
\* In intent, a key the object lacks reads as null (dict.get), and error says
\* whether the key 'error' is present.  The key 'accion' is read at line 60 and
\* never used, so intent does not carry it.
NoIntent ==
    [error |-> FALSE, direccion |-> JNull, hora |-> JNull, micro_linea |-> JNull,
     condicion_horario |-> JNull, cantidad |-> JNull, listado_completo |-> JNull]
Response(kind, intent) == [kind |-> kind, intent |-> intent]

\* lines 224-231: the header of the listing, from the intent's direccion as the
\* resolver gave it; "AttributeError" when it is truthy and has no lower()
header(direccion_viaje) ==
    IF ~Truthy(direccion_viaje) THEN "horarios"
    ELSE IF direccion_viaje.t # "str" THEN "AttributeError"
    ELSE IF lower(direccion_viaje.v) = s_ida THEN "horarios_ida"
    ELSE IF lower(direccion_viaje.v) = s_vuelta THEN "horarios_vuelta"
    ELSE "horarios"

Outcome(exc, sent, calls, result) ==
    [exc |-> exc, sent |-> sent, calls |-> calls, result |-> result]

\* lines 212-214, mutated: the return after the reply is missing
try_block_sin_return(df, response, now, tie) ==
    IF response.kind = "empty" THEN Outcome("none", <<Reply("problema_ia")>>, 0, NotCalled)
    ELSE IF response.kind \in {"no_json", "bad_json"}
    THEN Outcome("JSONDecodeError", <<>>, 0, NotCalled)
    ELSE
    LET intent == response.intent
        antes == IF intent.error \/ (~Truthy(intent.direccion) /\ ~Truthy(intent.micro_linea))
                 THEN <<Reply("no_entendi")>> ELSE <<>>
        horarios_disponibles == buscar_horarios(df, intent, now, tie)
    IN  IF horarios_disponibles.exc # "none"
        THEN Outcome(horarios_disponibles.exc, antes, 1, horarios_disponibles)
        ELSE IF horarios_disponibles.rows = <<>>
        THEN Outcome("none", antes \o <<Reply("sin_resultados")>>, 1, horarios_disponibles)
        ELSE
        LET h == header(intent.direccion)
        IN  IF h = "AttributeError"
            THEN Outcome("AttributeError", antes, 1, horarios_disponibles)
            ELSE Outcome("none", antes \o <<Listing(h, df, horarios_disponibles.rows)>>, 1,
                         horarios_disponibles)

\* lines 197-240: the body of the try statement.  exc is the exception that
\* leaves it ("none": it ran to its end or returned), sent the replies sent
\* inside it, calls the number of calls of buscar_horarios.
try_block(df, response, now, tie) ==
    IF response.kind = "empty" THEN Outcome("none", <<Reply("problema_ia")>>, 0, NotCalled)
    ELSE IF response.kind \in {"no_json", "bad_json"}
    THEN Outcome("JSONDecodeError", <<>>, 0, NotCalled)
    ELSE
    LET intent == response.intent
    IN  IF intent.error \/ (~Truthy(intent.direccion) /\ ~Truthy(intent.micro_linea))
        THEN Outcome("none", <<Reply("no_entendi")>>, 0, NotCalled)
        ELSE
        LET horarios_disponibles == buscar_horarios(df, intent, now, tie)
        IN  IF horarios_disponibles.exc # "none"
            THEN Outcome(horarios_disponibles.exc, <<>>, 1, horarios_disponibles)
            ELSE IF horarios_disponibles.rows = <<>>
            THEN Outcome("none", <<Reply("sin_resultados")>>, 1, horarios_disponibles)
            ELSE
            LET h == header(intent.direccion)
            IN  IF h = "AttributeError"
                THEN Outcome("AttributeError", <<>>, 1, horarios_disponibles)
                ELSE Outcome("none", <<Listing(h, df, horarios_disponibles.rows)>>, 1,
                             horarios_disponibles)

\* lines 242-244, mutated: no clause for JSONDecodeError, which then falls to
\* the clause for Exception
handle_message_sin_except_json(df, response, now, tie) ==
    IF df = <<>> THEN Outcome("none", <<Reply("no_tabla")>>, 0, NotCalled)
    ELSE
    LET b == try_block(df, response, now, tie)
    IN  IF b.exc = "none" THEN b
        ELSE Outcome("none", b.sent \o <<Reply("error_interno")>>, b.calls, b.result)

\* lines 169-247: the replies the handler sends for one text message, in order,
\* with the two except clauses appending theirs to what the try body had sent
handle_message(df, response, now, tie) ==
    IF df = <<>> THEN Outcome("none", <<Reply("no_tabla")>>, 0, NotCalled)
    ELSE
    LET b == try_block(df, response, now, tie)
    IN  IF b.exc = "none" THEN b
        ELSE IF b.exc = "JSONDecodeError"
        THEN Outcome("none", b.sent \o <<Reply("respuesta_invalida")>>, b.calls, b.result)
        ELSE Outcome("none", b.sent \o <<Reply("error_interno")>>, b.calls, b.result)

\* ------------------------------------------------------------------ inputs
Clock == 0..MaxTime

\* a row of the sheet "Horarios"
Trip(linea, direccion, salida, llegada) ==
    [Linea |-> linea, Direccion |-> direccion, Salida |-> salida, Llegada |-> llegada]

\* every sequence over rows of at most n elements
RECURSIVE UpTo(_, _)
UpTo(rows, n) ==
    IF n = 0 THEN {<<>>}
    ELSE LET shorter == UpTo(rows, n - 1)
         IN  shorter \cup {Append(f, r) : f \in {g \in shorter : Len(g) = n - 1}, r \in rows}

Intent(direccion, hora, micro_linea, condicion_horario, cantidad, listado_completo) ==
    [error |-> FALSE, direccion |-> direccion, hora |-> hora, micro_linea |-> micro_linea,
     condicion_horario |-> condicion_horario, cantidad |-> cantidad,
     listado_completo |-> listado_completo]

s_00_01 == <<"0", "0", ":", "0", "1">>
s_0_60 == <<"0", ":", "6", "0">>
\* "0:m" for the minute after MaxTime
s_tarde == <<"0", ":", Digits[MaxTime + 2]>>
s_ruta == <<"r", "u", "t", "a">>
s_RUTA60 == <<"R", "U", "T", "A", " ", "6", "0">>
s_6_dot == <<"6", ".">>

Condiciones == {JNull, JStr(s_cerca), JStr(s_antes_de), JStr(s_despues_de)}

\* a trip takes no time or two minutes, so that a trip leaving later may arrive
\* earlier
Durations == {0, 2}

\* Engine specification: trips of direction Ida at every minute of the clock,
\* one trip of direction Vuelta; no hour, 'ahora' and a malformed hour, and two
\* requested times under every condicion_horario; a few requests of a line.
TripsEngine ==
    {Trip(s_Ruta60, s_Ida, sa, sa + d) : sa \in Clock, d \in Durations}
        \cup {Trip(s_Ruta12, s_Vuelta, MaxTime, MaxTime)}

IntentsEngine ==
    {Intent(JStr(s_ida), h, JNull, JNull, n, l) :
        h \in {JNull, JStr(s_ahora), JStr(s_0_60)},
        n \in {JNull, JInt(1)},
        l \in {JBool(FALSE), JBool(TRUE)}}
    \cup
    {Intent(JStr(s_ida), h, JNull, c, n, l) :
        h \in {JStr(s_00_01), JStr(s_tarde)},
        c \in Condiciones,
        n \in {JNull, JInt(1)},
        l \in {JBool(FALSE), JBool(TRUE)}}
    \cup
    {Intent(d, h, JStr(s_ruta), JNull, JNull, JBool(FALSE)) :
        d \in {JNull, JStr(s_ida)}, h \in {JNull, JStr(s_ahora)}}

\* "ahora" specification: schedules long enough to exceed the default window.
TripsAhora ==
    {Trip(s_Ruta60, s_Ida, sa, sa) : sa \in Clock}
        \cup {Trip(s_Ruta12, s_Vuelta, MaxTime, MaxTime)}

IntentsAhora ==
    {Intent(JStr(s_ida), JStr(s_ahora), JNull, JNull, n, l) :
        n \in {JNull, JInt(1), JInt(2)}, l \in {JBool(FALSE), JBool(TRUE)}}

\* Handler specification: every kind of resolver answer, and direccion and
\* micro_linea as a string or as a list.
TripsHandler ==
    {Trip(li, d, sa, sa) : li \in {s_Ruta60, s_Ruta12}, d \in {s_Ida, s_Vuelta}, sa \in Clock}

IntentsHandler ==
    {Intent(d, h, m, c, JNull, JBool(FALSE)) :
        d \in {JNull, JStr(s_Ida), JList(<<JStr(s_Ida)>>), JStr(s_vuelta)},
        h \in {JNull, JStr(s_ahora), JStr(s_00_01)},
        m \in {JNull, JStr(s_RUTA60), JList(<<JStr(s_RUTA60)>>), JStr(s_6_dot)},
        c \in {JNull, JStr(s_cerca)}}

Responses ==
    {Response(k, NoIntent) : k \in {"empty", "no_json", "bad_json"}}
        \cup {Response("json", [NoIntent EXCEPT !.error = TRUE])}
        \cup {Response("json", i) : i \in IntentsHandler}

\* ------------------------------------------------------------------ state
VARIABLES
    df,        \* the schedule table, loaded once (empty: no file, or no rows)
    update,    \* the update just handled: "none" (waiting for one), "command", "text"
    response,  \* the resolver's answer to that message
    now,       \* the clock when it was handled
    result,    \* what buscar_horarios returned or raised for it
    sent,      \* the replies sent for it, in order
    calls      \* the calls of buscar_horarios made for it

vars == <<df, update, response, now, result, sent, calls>>

Idle ==
    /\ update = "none"
    /\ response = Response("empty", NoIntent)
    /\ now = 0
    /\ result = NotCalled
    /\ sent = <<>>
    /\ calls = 0

\* lines 165-167: the command /start
start ==
    /\ update = "none"
    /\ update' = "command"
    /\ sent' = <<Reply("start")>>
    /\ response' = Response("empty", NoIntent)
    /\ now' = 0
    /\ result' = NotCalled
    /\ calls' = 0
    /\ UNCHANGED df

\* lines 169-247 for one text message, with the resolver answering r at time t
HandleMessage(r, t) ==
    \E tie \in TieBreaks :
        LET o == handle_message(df, r, t, tie)
        IN  /\ update = "none"
            /\ update' = "text"
            /\ response' = r
            /\ now' = t
            /\ result' = o.result
            /\ sent' = o.sent
            /\ calls' = o.calls
            /\ UNCHANGED df

\* line 258: the handler has returned and the application waits for the next
\* update; nothing of the message is kept (no conversation state)
run_polling ==
    /\ update # "none"
    /\ update' = "none"
    /\ response' = Response("empty", NoIntent)
    /\ now' = 0
    /\ result' = NotCalled
    /\ sent' = <<>>
    /\ calls' = 0
    /\ UNCHANGED df

InitEngine == df \in UpTo(TripsEngine, MaxTrips) /\ Idle
TextEngine == \E i \in IntentsEngine, t \in Clock : HandleMessage(Response("json", i), t)
NextEngine == start \/ TextEngine \/ run_polling
SpecEngine == InitEngine /\ [][NextEngine]_vars

InitAhora == df \in UpTo(TripsAhora, MaxTripsAhora) /\ Idle
TextAhora == \E i \in IntentsAhora, t \in Clock : HandleMessage(Response("json", i), t)
NextAhora == start \/ TextAhora \/ run_polling
SpecAhora == InitAhora /\ [][NextAhora]_vars

Init == df \in UpTo(TripsHandler, MaxRows) /\ Idle
Text == \E r \in Responses, t \in Clock : HandleMessage(r, t)
Next == start \/ Text \/ run_polling
Spec == Init /\ [][Next]_vars

\* ------------------------------------------------------------------ claims
\* The message handled last, as the claims speak of it.
it == response.intent
dir == first_of_list(it.direccion)
linea == first_of_list(it.micro_linea)
\* buscar_horarios was called for the message; result is what came of the call
Called == update = "text" /\ calls = 1
Returns == result.exc = "none"
Rows == {result.rows[k] : k \in DOMAIN result.rows}
NoRepeat == Len(result.rows) = Cardinality(Rows)

DirectionOnly == Truthy(dir) /\ dir.t = "str" /\ ~Truthy(linea)
\* the requested time, when hora is a well-formed literal
HasTarget == it.hora.t = "str" /\ it.hora.v # s_ahora /\ strptime(it.hora.v) # ValueError
Target == strptime(it.hora.v)
BranchAhora == DirectionOnly /\ StrEq(it.hora, s_ahora)
BranchCerca == DirectionOnly /\ HasTarget /\ StrEq(it.condicion_horario, s_cerca)
BranchAntes == DirectionOnly /\ HasTarget /\ StrEq(it.condicion_horario, s_antes_de)
BranchDespues == DirectionOnly /\ HasTarget /\ StrEq(it.condicion_horario, s_despues_de)

\* the trips of the requested direction, and those of them still to leave
Matching == {i \in 1..Len(df) : lower(df[i].Direccion) = lower(dir.v)}
Pending == {i \in Matching : df[i].Salida > now}

Ascending(rows, key) == \A k \in 1..(Len(rows) - 1) : key[rows[k]] <= key[rows[k + 1]]
Distance == [i \in 1..Len(df) |->
                IF df[i].Llegada >= Target THEN df[i].Llegada - Target
                ELSE Target - df[i].Llegada]

Counts == {JNull, JInt(0 - 1), JInt(0), JInt(1), JInt(2)}
Flags == {JBool(FALSE), JBool(TRUE)}

\* C1: with a direction and no line filter, no returned trip has a departure
\* at or before the current instant, whatever the branch.
C1_NoDepartedTrip ==
    Called /\ DirectionOnly =>
        \A k \in DOMAIN result.rows : df[result.rows[k]].Salida > now

\* C1 witness: a query for a literal time returned trips while a trip of the
\* direction had left, one of them at this very instant.
C1_Witness ==
    /\ Called /\ DirectionOnly /\ HasTarget
    /\ result.rows # <<>>
    /\ \E i \in Matching : df[i].Salida = now

\* C2: buscar_horarios never raises; with nothing to return it returns the
\* empty MatchSet.
C2_NeverRaises == Called => Returns

\* C3: the 'cerca' branch returns the pending trip of the latest arrival <= T
\* (if any) and then the one of the earliest arrival > T (if any), and nothing
\* else, whatever cantidad and listado_completo are.
C3_Cerca ==
    Called /\ BranchCerca =>
        LET antes == {i \in Pending : df[i].Llegada <= Target}
            despues == {i \in Pending : df[i].Llegada > Target}
            rows == result.rows
        IN  /\ Returns
            /\ Len(rows) = (IF antes = {} THEN 0 ELSE 1) + (IF despues = {} THEN 0 ELSE 1)
            /\ antes # {} =>
                   /\ rows[1] \in antes
                   /\ \A j \in antes : df[j].Llegada <= df[rows[1]].Llegada
            /\ despues # {} =>
                   /\ rows[Len(rows)] \in despues
                   /\ \A j \in despues : df[rows[Len(rows)]].Llegada <= df[j].Llegada
            /\ \A n \in Counts, l \in Flags : \E tie \in TieBreaks :
                   buscar_horarios(df, [it EXCEPT !.cantidad = n, !.listado_completo = l],
                                   now, tie) = result

\* C4: the returned trips are in the order of their branch: by departure for
\* 'ahora' and for a line filter, by distance of the arrival from the requested
\* time for 'antes_de' and 'despues_de', by arrival for 'cerca'.
C4_Ordered ==
    Called /\ Returns =>
        /\ Truthy(linea) => Ascending(result.rows, Salida(df))
        /\ BranchAhora => Ascending(result.rows, Salida(df))
        /\ BranchAntes \/ BranchDespues => Ascending(result.rows, Distance)
        /\ BranchCerca => Ascending(result.rows, Llegada(df))

\* C4 witness: 'antes_de' returned two trips of different distance in the
\* reverse of their order in the schedule.
C4_Witness ==
    /\ Called /\ Returns /\ BranchAntes
    /\ Len(result.rows) = 2
    /\ result.rows[1] > result.rows[2]
    /\ Distance[result.rows[1]] < Distance[result.rows[2]]

\* C5: with listado_completo true the outcome is the same for every cantidad,
\* and 'ahora', 'antes_de' and 'despues_de' return every trip that qualifies.
C5_FullListingOverrides ==
    Called /\ Truthy(it.listado_completo) =>
        /\ \A tie \in TieBreaks :
               LET asked == buscar_horarios(df, it, now, tie)
               IN  \A n \in Counts :
                       buscar_horarios(df, [it EXCEPT !.cantidad = n], now, tie) = asked
        /\ BranchAhora => Returns /\ NoRepeat /\ Rows = Pending
        /\ BranchAntes =>
               Returns /\ NoRepeat /\ Rows = {i \in Pending : df[i].Llegada < Target}
        /\ BranchDespues =>
               Returns /\ NoRepeat /\ Rows = {i \in Pending : df[i].Llegada >= Target}

\* C5 witness: a full listing asked together with a count of 1 returned two
\* trips or more.
C5_Witness ==
    /\ Called /\ BranchAhora
    /\ Truthy(it.listado_completo) /\ it.cantidad = JInt(1)
    /\ Len(result.rows) >= 2

\* The first n pending trips in an ascending order of departure.
FirstByDeparture(n) ==
    /\ Returns /\ NoRepeat /\ Rows \subseteq Pending
    /\ Len(result.rows) = (IF Cardinality(Pending) < n THEN Cardinality(Pending) ELSE n)
    /\ Ascending(result.rows, Salida(df))
    /\ \A i \in Pending \ Rows : \A j \in Rows : df[j].Salida <= df[i].Salida

\* C6: 'ahora' without listado_completo returns the first 3 pending trips by
\* departure when cantidad is absent, and the first k when cantidad = k > 0.
C6_DefaultWindow ==
    Called /\ BranchAhora /\ ~Truthy(it.listado_completo) =>
        /\ it.cantidad = JNull => FirstByDeparture(3)
        /\ it.cantidad.t = "int" /\ it.cantidad.v > 0 => FirstByDeparture(it.cantidad.v)

\* C6 witness: four trips or more were pending and three were returned.
C6_Witness ==
    /\ Called /\ BranchAhora /\ ~Truthy(it.listado_completo) /\ it.cantidad = JNull
    /\ Cardinality(Pending) >= 4
    /\ Len(result.rows) = 3

\* s holds pat as a run of consecutive characters
substring(s, pat) ==
    \E o \in 0..(Len(s) - Len(pat)) : \A j \in 1..Len(pat) : pat[j] = s[o + j]

\* C7: with a line filter the result is exactly the trips whose line holds the
\* filter as a case-insensitive substring (of the direction, if one is given),
\* by ascending departure, whatever the clock and the time fields are.
C7_LineFilter ==
    Called /\ linea.t = "str" /\ Truthy(linea) /\ dir.t \in {"null", "str"} =>
        /\ Returns /\ NoRepeat
        /\ Rows = {i \in 1..Len(df) :
                      /\ substring(lower(df[i].Linea), lower(linea.v))
                      /\ Truthy(dir) => lower(df[i].Direccion) = lower(dir.v)}
        /\ Ascending(result.rows, Salida(df))
        /\ \A t \in Clock, h \in {JNull, JStr(s_ahora), JStr(s_00_01)}, c \in Condiciones,
              n \in Counts, l \in Flags : \E tie \in TieBreaks :
               buscar_horarios(df, [it EXCEPT !.hora = h, !.condicion_horario = c,
                                              !.cantidad = n, !.listado_completo = l],
                               t, tie) = result

\* C8: every text message gets exactly one reply.
C8_OneReply == update = "text" => Len(sent) = 1

\* C8 witness: buscar_horarios raised, and the one reply is the notice of an
\* internal error.
C8_Witness ==
    /\ Called /\ ~Returns
    /\ sent = <<Reply("error_interno")>>

NoJsonObject == response.kind = "no_json"
IntentRejected ==
    /\ response.kind = "json"
    /\ it.error \/ (~Truthy(it.direccion) /\ ~Truthy(it.micro_linea))

Scalar(i) ==
    [i EXCEPT !.direccion = first_of_list(@), !.micro_linea = first_of_list(@)]

\* C10: an intent whose direccion or micro_linea is a non-empty list is handled
\* as the intent with the list's first element in its place: the same
\* MatchSet, the same reply.
C10_ListAsFirstElement ==
    /\ update = "text" /\ df # <<>> /\ response.kind = "json"
    /\ it.direccion.t = "list" \/ it.micro_linea.t = "list"
    => \E tie \in TieBreaks :
           LET o == handle_message(df, Response("json", Scalar(it)), now, tie)
           IN  o.result = result /\ o.sent = sent

====
